---- MODULE Spec2Model ----
(***************************************************************************)
(* The ledger engine of blockchain.py (class Blockchain) and the request   *)
(* handlers of server.py, as a state machine.                              *)
(*                                                                         *)
(* The host serves requests from several threads (Flask's threaded server),*)
(* so every method of Blockchain is a sequence of steps of the calling     *)
(* thread, one step per source statement that reads or writes the shared   *)
(* fields self.chain, self.current_transactions and self.nodes.            *)
(*                                                                         *)
(* Python lists are objects: self.current_transactions and a block's       *)
(* 'transactions' entry may name the same list.  `lists` is the heap of    *)
(* transaction lists and a block holds the identity of its list.           *)
(***************************************************************************)
EXTENDS Integers, Sequences, FiniteSets, TLC

\* Bound of the exploration: the number of calls the host makes in one run.
MaxCalls == 4

\* blockchain.py:100, the number of leading '0' characters a guess must have.
difficulty == 4

Threads == {"t1", "t2"}
Times == {1, 2}
Senders == {"A"}
Recipients == {"B"}
Amounts == {10}

(***************************************************************************)
(* Python values that occur in a block's 'proof' and 'previous_hash'.      *)
(***************************************************************************)
PyNone == [t |-> "none"]

PyInt(n) == [t |-> "int", n |-> n]

\* Python truthiness, as `previous_hash or ...` and `if new_chain:` use it.
Truthy(v) ==
    CASE v.t = "none" -> FALSE
      [] v.t = "int" -> v.n # 0
      [] v.t = "hex" -> Len(v.hex) > 0
      [] v.t = "list" -> Len(v.items) > 0

(***************************************************************************)
(* hashlib.sha256(...).hexdigest().  A digest is kept together with the    *)
(* text it was computed from (`pre`), so that two digests are equal        *)
(* exactly when their texts are: SHA-256 without collisions.  Its leading  *)
(* characters (`hex`) are a fixed function of the text; the alphabet is    *)
(* scaled down to two characters, '0' and '1', and the digest to one       *)
(* character more than the difficulty prefix, which keeps the search of    *)
(* proof_of_work short.                                                    *)
(***************************************************************************)
HexLen == difficulty + 1

RECURSIVE Pow2(_)
Pow2(n) == IF n = 0 THEN 1 ELSE 2 * Pow2(n - 1)

HexSpace == Pow2(HexLen)

hexdigest(mix) == [i \in 1 .. HexLen |-> ((mix % HexSpace) \div Pow2(HexLen - i)) % 2]

sha256(text, mix) == [t |-> "hex", hex |-> hexdigest(mix), pre |-> text]

RECURSIVE HexValue(_)
HexValue(hex) ==
    IF Len(hex) = 0 THEN 0
    ELSE 2 * HexValue(SubSeq(hex, 1, Len(hex) - 1)) + hex[Len(hex)]

\* The number a value contributes to the digest of a text that contains it.
Num(v) ==
    CASE v.t = "int" -> v.n
      [] v.t = "hex" -> HexValue(v.hex)
      [] OTHER -> 0

RECURSIVE TxMix(_)
TxMix(txs) ==
    IF Len(txs) = 0 THEN 0
    ELSE TxMix(Tail(txs)) + 13 * (Head(txs).tx_index + 1)
         + Head(txs).amount + 3 * Head(txs).timestamp

\* sha256(str(proof).encode()).hexdigest() of proof_of_work, line 79.
sha256_of_counter(proof) == sha256(<<"str", proof>>, 5 * proof + 3)

\* valid_proof, lines 102-105: the guess is the concatenation of the three
\* values' texts; it passes when its digest starts with `difficulty` zeros.
valid_proof(last_block_hash, last_proof, proof) ==
    LET guess == <<last_block_hash, last_proof, proof>>
        guess_hash == sha256(guess, 3 * Num(last_block_hash) + 5 * Num(last_proof)
                                    + Num(proof)).hex
    IN  /\ Len(guess_hash) >= difficulty
        /\ \A i \in 1 .. difficulty : guess_hash[i] = 0

\* proof_of_work, lines 77-86: count up from 0 and return the digest of the
\* first counter whose digest passes valid_proof.
RECURSIVE pow_search(_, _, _)
pow_search(last_block_hash, last_proof, proof) ==
    LET proof_digest == sha256_of_counter(proof)
    IN  IF valid_proof(last_block_hash, last_proof, proof_digest)
        THEN proof_digest
        ELSE pow_search(last_block_hash, last_proof, proof + 1)

proof_of_work_unchecked(last_block_hash, last_proof) == sha256_of_counter(0)

proof_of_work(last_block_hash, last_proof) == pow_search(last_block_hash, last_proof, 0)

(***************************************************************************)
(* State.                                                                  *)
(***************************************************************************)
VARIABLES
    chain,                 \* self.chain: the sequence of blocks
    current_transactions,  \* self.current_transactions: identity of a list
    lists,                 \* the heap: identity -> sequence of transactions
    nodes,                 \* self.nodes
    pc,                    \* per thread: the statement it is about to run
    frame,                 \* per thread: the running call's locals
    returned,              \* the call that ended last, and how it ended
    calls                  \* number of calls started

vars == <<chain, current_transactions, lists, nodes, pc, frame, returned, calls>>

\* The list every block decoded from a peer's JSON holds: no transactions.
PeerList == 1

Content(block) == lists[block.transactions]

\* json.dumps(block, sort_keys=True): the block's entries in key order, the
\* transaction list written out in full.
json_dumps(block, txs) ==
    [index |-> block.index,
     previous_hash |-> block.previous_hash,
     proof |-> block.proof,
     seconds_to_proof |-> block.seconds_to_proof,
     timestamp |-> block.timestamp,
     transactions |-> txs]

\* hashlib.sha256(block_string).hexdigest(), line 118.
hash_of_text(block_string) ==
    sha256(block_string,
           3 * block_string.index + 5 * block_string.timestamp
           + TxMix(block_string.transactions)
           + 7 * Num(block_string.proof) + 11 * Num(block_string.previous_hash))

\* Blockchain.hash, lines 117-118.
hash(block) == hash_of_text(json_dumps(block, Content(block)))

last_block == chain[Len(chain)]

\* The dict of new_block, lines 30-37.
new_block_dict(now, proof, previous_hash, seconds_to_proof) ==
    [index |-> Len(chain),
     timestamp |-> now,
     transactions |-> current_transactions,
     proof |-> proof,
     previous_hash |-> IF Truthy(previous_hash) THEN previous_hash ELSE hash(last_block),
     seconds_to_proof |-> seconds_to_proof]

\* __init__, line 16: new_block(previous_hash=1, proof=1) on the empty chain,
\* with the first list of line 13 as its transactions.
GenesisBlock(now) ==
    [index |-> 0, timestamp |-> now, transactions |-> 2, proof |-> PyInt(1),
     previous_hash |-> PyInt(1), seconds_to_proof |-> PyNone]

Idle == [op |-> "none"]

\* __init__, lines 12-18: the genesis block, an empty mempool, no nodes.
Init ==
    /\ \E now \in Times : chain = <<GenesisBlock(now)>>
    /\ lists = << <<>>, <<>>, <<>> >>
    /\ current_transactions = 3
    /\ nodes = {}
    /\ pc = [t \in Threads |-> "idle"]
    /\ frame = [t \in Threads |-> Idle]
    /\ returned = [op |-> "__init__", ret |-> "None"]
    /\ calls = 0

\* A thread takes up a new call.
Begin(t) ==
    /\ pc[t] = "idle"
    /\ calls < MaxCalls
    /\ calls' = calls + 1

(***************************************************************************)
(* new_transaction, lines 55-65.                                           *)
(***************************************************************************)
\* line 55: tx_index = len(self.current_transactions)
\* (`target` is a local not yet assigned.)
NewTransactionLen(t) ==
    /\ Begin(t)
    /\ \E sender \in Senders, recipient \in Recipients, amount \in Amounts :
          frame' = [frame EXCEPT ![t] =
                       [op |-> "new_transaction", sender |-> sender,
                        recipient |-> recipient, amount |-> amount,
                        tx_index |-> Len(lists[current_transactions]),
                        target |-> 0]]
    /\ pc' = [pc EXCEPT ![t] = "nt_load"]
    /\ UNCHANGED <<chain, current_transactions, lists, nodes, returned>>

\* line 57: self.current_transactions is evaluated, then the dict is built.
NewTransactionLoad(t) ==
    /\ pc[t] = "nt_load"
    /\ frame' = [frame EXCEPT ![t].target = current_transactions]
    /\ pc' = [pc EXCEPT ![t] = "nt_append"]
    /\ UNCHANGED <<chain, current_transactions, lists, nodes, returned, calls>>

\* The dict of lines 57-63.
transaction_dict(f, now) ==
    [sender |-> f.sender, recipient |-> f.recipient, amount |-> f.amount,
     timestamp |-> now, tx_index |-> f.tx_index]

\* lines 57-63: the append to the list that was evaluated.
NewTransactionAppend(t) ==
    /\ pc[t] = "nt_append"
    /\ \E now \in Times :
          lists' = [lists EXCEPT ![frame[t].target] =
                       Append(@, transaction_dict(frame[t], now))]
    /\ pc' = [pc EXCEPT ![t] = "nt_return"]
    /\ UNCHANGED <<chain, current_transactions, nodes, frame, returned, calls>>

NewTransactionReturnPosition(t) ==
    /\ pc[t] = "nt_return"
    /\ returned' = [op |-> "new_transaction", ret |-> frame[t].tx_index]
    /\ frame' = [frame EXCEPT ![t] = Idle]
    /\ pc' = [pc EXCEPT ![t] = "idle"]
    /\ UNCHANGED <<chain, current_transactions, lists, nodes, calls>>

\* line 65: return self.last_block['index'] + 1
NewTransactionReturn(t) ==
    /\ pc[t] = "nt_return"
    /\ returned' = [op |-> "new_transaction", ret |-> last_block.index + 1]
    /\ frame' = [frame EXCEPT ![t] = Idle]
    /\ pc' = [pc EXCEPT ![t] = "idle"]
    /\ UNCHANGED <<chain, current_transactions, lists, nodes, calls>>

(***************************************************************************)
(* server.py, lines 48-61: the handler of POST /transactions/new, run by   *)
(* one caller from its first line to its return.  `values` is the decoded  *)
(* JSON object of the request: the keys it has, and under 'sender' a       *)
(* string or null.                                                         *)
(***************************************************************************)
JsonStr(s) == [t |-> "str", s |-> s]

\* The Python object request.json gives for a JSON value.
FromJson(v) == IF v.t = "str" THEN v.s ELSE v

\* line 53
required == {"sender", "recipient", "amount"}

PostTransaction(t) ==
    /\ Begin(t)
    /\ \E keys \in SUBSET required, null_sender \in BOOLEAN, now \in Times :
       \E sender \in Senders, recipient \in Recipients, amount \in Amounts :
          LET values == [keys |-> keys,
                         sender |-> IF null_sender THEN PyNone ELSE JsonStr(sender),
                         recipient |-> recipient, amount |-> amount]
              f == [sender |-> FromJson(values.sender), recipient |-> recipient,
                    amount |-> amount,
                    tx_index |-> Len(lists[current_transactions])]
          IN  /\ null_sender => "sender" \in keys
              /\ IF \E k \in required : k \notin values.keys
                 THEN \* line 55: return 'Missing values', 400
                      /\ returned' = [op |-> "post_transaction", values |-> values,
                                      ret |-> "400"]
                      /\ lists' = lists
                 ELSE \* lines 58-61: blockchain.new_transaction(...), then 201
                      /\ lists' = [lists EXCEPT ![current_transactions] =
                                      Append(@, transaction_dict(f, now))]
                      /\ returned' = [op |-> "post_transaction", values |-> values,
                                      ret |-> "201", index |-> last_block.index + 1]
    /\ UNCHANGED <<chain, current_transactions, nodes, pc, frame>>

(***************************************************************************)
(* A mint: the caller reads the tip, searches a proof for it with          *)
(* proof_of_work(last_block_hash, last_proof) and hands the proof to       *)
(* new_block(proof, previous_hash), lines 20-43.  The search holds no      *)
(* shared state, so other threads run between it and new_block.            *)
(* (server.py's own /mine handler never gets this far: see Mine below.)    *)
(***************************************************************************)
MintSearch(t) ==
    /\ Begin(t)
    /\ \E pass_previous_hash \in BOOLEAN :
          frame' = [frame EXCEPT ![t] =
                       [op |-> "mint",
                        tip |-> last_block, tip_at |-> Len(chain),
                        proof |-> proof_of_work(hash(last_block), last_block.proof),
                        previous_hash |-> IF pass_previous_hash THEN hash(last_block)
                                          ELSE PyNone,
                        chain_at_call |-> <<>>, pool_at_call |-> <<>>,
                        block |-> PyNone]]
    /\ pc' = [pc EXCEPT ![t] = "nb_build"]
    /\ UNCHANGED <<chain, current_transactions, lists, nodes, returned>>

\* lines 30-37: the block dict.  chain_at_call and pool_at_call remember the
\* chain and the mempool as new_block found them.
NewBlockBuild(t) ==
    /\ pc[t] = "nb_build"
    /\ \E now \in Times :
          frame' = [frame EXCEPT
                       ![t].block = new_block_dict(now, frame[t].proof,
                                                   frame[t].previous_hash, PyNone),
                       ![t].chain_at_call = chain,
                       ![t].pool_at_call = lists[current_transactions]]
    /\ pc' = [pc EXCEPT ![t] = "nb_reset"]
    /\ UNCHANGED <<chain, current_transactions, lists, nodes, returned, calls>>

reset_in_place(heap, current) == <<[heap EXCEPT ![current] = <<>>], current>>

\* line 40: self.current_transactions = [], a new empty list.  The result
\* is the heap and the identity self.current_transactions then holds.
reset_transactions(heap, current) == <<Append(heap, <<>>), Len(heap) + 1>>

NewBlockReset(t) ==
    /\ pc[t] = "nb_reset"
    /\ lists' = reset_transactions(lists, current_transactions)[1]
    /\ current_transactions' = reset_transactions(lists, current_transactions)[2]
    /\ pc' = [pc EXCEPT ![t] = "nb_append"]
    /\ UNCHANGED <<chain, nodes, frame, returned, calls>>

\* lines 42-43: self.chain.append(block); return block
NewBlockAppend(t) ==
    /\ pc[t] = "nb_append"
    /\ chain' = Append(chain, frame[t].block)
    /\ returned' = [op |-> "new_block", ret |-> "block"]
    /\ frame' = [frame EXCEPT ![t] = Idle]
    /\ pc' = [pc EXCEPT ![t] = "idle"]
    /\ UNCHANGED <<current_transactions, lists, nodes, calls>>

\* server.py, lines 22-24: the /mine handler calls proof_of_work(last_proof),
\* one argument short of proof_of_work(self, last_block_hash, last_proof);
\* the call raises TypeError before anything is written.
Mine(t) ==
    /\ Begin(t)
    /\ returned' = [op |-> "mine", ret |-> "TypeError"]
    /\ UNCHANGED <<chain, current_transactions, lists, nodes, pc, frame>>

(***************************************************************************)
(* valid_chain, lines 143-161.  The result is "True", "False" or the name  *)
(* of the exception the call ends with.                                    *)
(***************************************************************************)
\* line 155: self.valid_proof(last_block['proof'], current_block['proof'])
\* binds last_block_hash and last_proof of valid_proof(last_block_hash,
\* last_proof, proof) and leaves `proof` without a value: TypeError.
valid_proof_call(last_proof, proof) == "TypeError"

RECURSIVE valid_chain_from(_, _)
valid_chain_from(c, current_index) ==
    IF current_index > Len(c) THEN "True"
    ELSE IF c[current_index].previous_hash # hash(c[current_index - 1]) THEN "False"
    ELSE LET ok == valid_proof_call(c[current_index - 1].proof, c[current_index].proof)
         IN  IF ok = "True" THEN valid_chain_from(c, current_index + 1)
             ELSE IF ok = "False" THEN "False"
             ELSE ok

\* line 143: last_block = chain[0] raises IndexError on an empty chain.
valid_chain(c) == IF Len(c) = 0 THEN "IndexError" ELSE valid_chain_from(c, 2)

\* A caller checks the ledger's own chain.
ValidChain(t) ==
    /\ Begin(t)
    /\ returned' = [op |-> "valid_chain", ret |-> valid_chain(chain)]
    /\ UNCHANGED <<chain, current_transactions, lists, nodes, pc, frame>>

(***************************************************************************)
(* register_node, lines 132-133.                                           *)
(***************************************************************************)
Addresses == {"http://peer-a:5000", "http://peer-b:5000/chain", "peer-a:5000"}

\* urlparse(address).netloc: the text between "//" and the next "/"; an
\* address without "//" has an empty netloc.
netloc(address) ==
    CASE address = "http://peer-a:5000" -> "peer-a:5000"
      [] address = "http://peer-b:5000/chain" -> "peer-b:5000"
      [] address = "peer-a:5000" -> ""

RegisterNode(t) ==
    /\ Begin(t)
    /\ \E address \in Addresses : nodes' = nodes \cup {netloc(address)}
    /\ returned' = [op |-> "register_node", ret |-> "None"]
    /\ UNCHANGED <<chain, current_transactions, lists, pc, frame>>

(***************************************************************************)
(* What a peer may answer to GET http://{node}/chain.                      *)
(***************************************************************************)
\* A block as json decodes it: its transactions are a list of its own.
PeerGenesis(now) == [GenesisBlock(now) EXCEPT !.transactions = PeerList]

peer_hash(block) == hash_of_text(json_dumps(block, <<>>))

\* The block a peer mints on top of its chain c.
PeerBlock(c, now) ==
    [index |-> Len(c), timestamp |-> now, transactions |-> PeerList,
     proof |-> proof_of_work(peer_hash(c[Len(c)]), c[Len(c)].proof),
     previous_hash |-> peer_hash(c[Len(c)]), seconds_to_proof |-> PyNone]

PeerChainA == <<PeerGenesis(1)>>

PeerChainB == <<PeerGenesis(2)>>

PeerChain2 == Append(PeerChainA, PeerBlock(PeerChainA, 2))

PeerChain3 == Append(PeerChain2, PeerBlock(PeerChain2, 3))

\* PeerChain2 with its first block altered after the second was minted.
PeerChainTampered == <<PeerGenesis(2), PeerChain2[2]>>

\* A chain whose only block is not a genesis block: the second block of
\* PeerChain2 alone.
PeerChainNoGenesis == <<PeerChain2[2]>>

PeerChains ==
    {<<>>, PeerChainA, PeerChainB, PeerChain2, PeerChain3, PeerChainTampered,
     PeerChainNoGenesis}

\* A length no local chain of a run reaches.
BigLength == MaxCalls + 2

\* "error": requests.get raises; "status": a status code other than 200;
\* "malformed": status 200 and a body response.json() cannot read;
\* "ok": status 200 with 'length' and 'chain'; the length is the chain's own
\* or, as nothing ties the two together, BigLength.
Responses ==
    {[kind |-> "error"], [kind |-> "status"], [kind |-> "malformed"]}
    \cup {[kind |-> "ok", length |-> Len(c), chain |-> c] : c \in PeerChains}
    \cup {[kind |-> "ok", length |-> BigLength, chain |-> c] : c \in PeerChains}

\* What the peers answer during one call; no host answers at http:///chain.
Answers(ns) == {resp \in [ns -> Responses] : "" \in ns => resp[""].kind = "error"}

\* A caller hands valid_chain a chain of its own choosing: `arg` is the
\* argument of the call that ended.
ValidChainOf(t) ==
    /\ Begin(t)
    /\ \E c \in PeerChains :
          returned' = [op |-> "valid_chain", arg |-> c, ret |-> valid_chain(c)]
    /\ UNCHANGED <<chain, current_transactions, lists, nodes, pc, frame>>

(***************************************************************************)
(* resolve_conflicts, lines 171-195.                                       *)
(***************************************************************************)
PyList(items) == [t |-> "list", items |-> items]

longer_unchecked(length, max_length, c) ==
    IF length > max_length THEN "True" ELSE "False"

\* line 186: length > max_length and self.valid_chain(chain)
longer_and_valid(length, max_length, c) ==
    IF length > max_length THEN valid_chain(c) ELSE "False"

\* lines 179-188, one pass of the loop body over the answer r.  st holds the
\* locals max_length and new_chain, and in `raised` the exception, if any.
scan(st, r) ==
    CASE r.kind = "error" -> [st EXCEPT !.raised = "ConnectionError"]
      [] r.kind = "status" -> st
      [] r.kind = "malformed" -> [st EXCEPT !.raised = "ValueError"]
      [] r.kind = "ok" ->
           LET v == longer_and_valid(r.length, st.max_length, r.chain)
           IN  IF v = "True"
               THEN [st EXCEPT !.max_length = r.length, !.new_chain = PyList(r.chain)]
               ELSE IF v = "False" THEN st
               ELSE [st EXCEPT !.raised = v]

\* lines 171-175.  `size` is the size of self.nodes as the iteration starts;
\* `resp` is what each peer answers when asked during this call.
ResolveStart(t) ==
    /\ Begin(t)
    /\ \E resp \in Answers(nodes) :
          frame' = [frame EXCEPT ![t] =
                       [op |-> "resolve_conflicts", resp |-> resp,
                        todo |-> nodes, size |-> Cardinality(nodes),
                        chain_at_call |-> chain,
                        st |-> [max_length |-> Len(chain), new_chain |-> PyNone,
                                raised |-> "no"]]]
    /\ pc' = [pc EXCEPT ![t] = "rc_loop"]
    /\ UNCHANGED <<chain, current_transactions, lists, nodes, returned>>

\* An exception leaves resolve_conflicts: nothing has been written.
Raise(t, exception) ==
    /\ returned' = [op |-> "resolve_conflicts", ret |-> exception]
    /\ frame' = [frame EXCEPT ![t] = Idle]
    /\ pc' = [pc EXCEPT ![t] = "idle"]
    /\ UNCHANGED <<chain, current_transactions, lists, nodes, calls>>

\* line 178: the next element of the set, in no particular order; a set
\* that changed size since the iteration started raises RuntimeError.
ResolveNext(t) ==
    /\ pc[t] = "rc_loop"
    /\ frame[t].todo # {}
    /\ IF Cardinality(nodes) # frame[t].size
       THEN Raise(t, "RuntimeError")
       ELSE \E node \in frame[t].todo :
               LET st == scan(frame[t].st, frame[t].resp[node])
               IN  IF st.raised # "no"
                   THEN Raise(t, st.raised)
                   ELSE /\ frame' = [frame EXCEPT ![t].st = st,
                                                  ![t].todo = @ \ {node}]
                        /\ UNCHANGED <<chain, current_transactions, lists, nodes,
                                       pc, returned, calls>>

\* lines 191-195, once the set is exhausted.
ResolveFinish(t) ==
    /\ pc[t] = "rc_loop"
    /\ frame[t].todo = {}
    /\ IF Cardinality(nodes) # frame[t].size
       THEN Raise(t, "RuntimeError")
       ELSE /\ IF Truthy(frame[t].st.new_chain)
               THEN /\ chain' = frame[t].st.new_chain.items
                    /\ returned' = [op |-> "resolve_conflicts", ret |-> "True"]
               ELSE /\ chain' = chain
                    /\ returned' = [op |-> "resolve_conflicts", ret |-> "False"]
            /\ frame' = [frame EXCEPT ![t] = Idle]
            /\ pc' = [pc EXCEPT ![t] = "idle"]
            /\ UNCHANGED <<current_transactions, lists, nodes, calls>>

(***************************************************************************)
(* The specifications.                                                     *)
(***************************************************************************)
StepMint(t) ==
    \/ NewTransactionLen(t)
    \/ NewTransactionLoad(t)
    \/ NewTransactionAppend(t)
    \/ NewTransactionReturn(t)
    \/ MintSearch(t)
    \/ NewBlockBuild(t)
    \/ NewBlockReset(t)
    \/ NewBlockAppend(t)
    \/ ValidChain(t)

Step(t) ==
    \/ StepMint(t)
    \/ Mine(t)
    \/ RegisterNode(t)
    \/ ResolveStart(t)
    \/ ResolveNext(t)
    \/ ResolveFinish(t)

\* Any number of the host's threads at a time.
Next == \E t \in Threads : Step(t)

Spec == Init /\ [][Next]_vars

\* One caller: the calls run to completion one after another.
NextSeq == Step("t1")

SpecSeq == Init /\ [][NextSeq]_vars

\* One caller, and the ledger changes by submissions and mints only.
NextMint == StepMint("t1")

SpecMint == Init /\ [][NextMint]_vars

\* Any number of threads, and the ledger changes by submissions and mints
\* only: resolve_conflicts is never called, the chain is never replaced.
NextConc == \E t \in Threads : StepMint(t)

SpecConc == Init /\ [][NextConc]_vars

\* One caller that submits, mints and validates chains of its choosing.
NextValid == StepMint("t1") \/ ValidChainOf("t1")

SpecValid == Init /\ [][NextValid]_vars

\* One caller that posts to /transactions/new, besides submitting and
\* minting through the engine.
NextPost == StepMint("t1") \/ PostTransaction("t1")

SpecPost == Init /\ [][NextPost]_vars

(***************************************************************************)
(* Properties.                                                             *)
(***************************************************************************)
\* The chain invariant of the data model: every block after the first names
\* the hash of its predecessor, and its proof passes valid_proof for the
\* predecessor's hash and proof.
ChainLinked(c) ==
    \A i \in 2 .. Len(c) :
        /\ c[i].previous_hash = hash(c[i - 1])
        /\ valid_proof(hash(c[i - 1]), c[i - 1].proof, c[i].proof)

\* Thread t's call of resolve_conflicts ends with this step.
ResolveEnds(t) == pc[t] = "rc_loop" /\ pc'[t] = "idle"

\* Thread t's call of new_block returns with this step.
NewBlockReturns(t) == pc[t] = "nb_append" /\ pc'[t] = "idle"

\* C1: on a ledger made of the genesis block and the blocks of mints that ran
\* one after another, valid_chain of the ledger's own chain returns True.
C1_ValidChainOfMintedLedger ==
    returned.op = "valid_chain" => returned.ret = "True"

\* C2: in every reachable state every block after the first names the hash of
\* the block before it and carries a proof valid for that block.
C2_AdjacentBlocksLinked == ChainLinked(chain)

\* C3: when new_block returns, the chain is the chain it found plus the new
\* block, the block holds the mempool it found, in order, and the mempool is
\* empty.
C3_MintMovesMempool ==
    [][\A t \in Threads :
          NewBlockReturns(t) =>
              /\ chain' = Append(frame[t].chain_at_call, frame[t].block)
              /\ lists'[chain'[Len(chain')].transactions] = frame[t].pool_at_call
              /\ lists'[current_transactions'] = <<>>]_vars

C3_Witness ==
    /\ returned.op = "new_block"
    /\ Len(chain) = 2
    /\ Content(chain[2]) = <<[sender |-> "A", recipient |-> "B", amount |-> 10,
                              timestamp |-> 1, tx_index |-> 0]>>
    /\ lists[current_transactions] = <<>>

\* C4: the chain that a call of resolve_conflicts returning True leaves
\* behind is linked: hash and proof hold for every adjacent pair.
C4_AdoptedChainIsValid ==
    [][\A t \in Threads :
          (ResolveEnds(t) /\ returned'.ret = "True") => ChainLinked(chain')]_vars

C4_Witness ==
    /\ returned.op = "resolve_conflicts"
    /\ returned.ret = "True"
    /\ chain \in PeerChains

\* The peers of a call that answer 200 with a linked chain longer than the
\* local one, reporting its true length.
Offers(f) ==
    {n \in DOMAIN f.resp :
        /\ f.resp[n].kind = "ok"
        /\ f.resp[n].length = Len(f.resp[n].chain)
        /\ Len(f.resp[n].chain) > Len(f.chain_at_call)
        /\ ChainLinked(f.resp[n].chain)}

\* Every peer answers 200 and reports the length its chain has.
AllAnswerTruly(f) ==
    \A n \in DOMAIN f.resp :
        f.resp[n].kind = "ok" /\ f.resp[n].length = Len(f.resp[n].chain)

\* C5: when all peers answer, a call of resolve_conflicts with a longer valid
\* chain on offer returns True and leaves the longest chain offered; with
\* none on offer it returns False and leaves the chain as it was.
C5_LongestValidChainRule ==
    [][\A t \in Threads :
          (ResolveEnds(t) /\ AllAnswerTruly(frame[t])) =>
              IF Offers(frame[t]) # {}
              THEN /\ returned'.ret = "True"
                   /\ \E n \in Offers(frame[t]) : chain' = frame[t].resp[n].chain
                   /\ \A n \in Offers(frame[t]) :
                         Len(chain') >= Len(frame[t].resp[n].chain)
              ELSE /\ returned'.ret = "False"
                   /\ chain' = chain]_vars

\* C6: no step makes the local chain shorter.
C6_ChainNeverShrinks == [][Len(chain') >= Len(chain)]_vars

\* The peers in address order.
NodeOrder == <<"", "peer-a:5000", "peer-b:5000">>

SortedNodes(ns) == SelectSeq(NodeOrder, LAMBDA n : n \in ns)

\* The loop of resolve_conflicts over the peers taken in the order given.
RECURSIVE scan_in_order(_, _, _)
scan_in_order(st, order, resp) ==
    IF Len(order) = 0 \/ st.raised # "no" THEN st
    ELSE scan_in_order(scan(st, resp[Head(order)]), Tail(order), resp)

\* What a call with locals f leaves when it scans the peers in that order:
\* how it ends, and the chain.
Outcome(f, order) ==
    LET st == scan_in_order([max_length |-> Len(f.chain_at_call),
                             new_chain |-> PyNone, raised |-> "no"], order, f.resp)
    IN  IF st.raised # "no" THEN <<st.raised, f.chain_at_call>>
        ELSE IF Truthy(st.new_chain) THEN <<"True", st.new_chain.items>>
        ELSE <<"False", f.chain_at_call>>

\* C7: a call of resolve_conflicts that returns leaves the chain, and the
\* replaced flag, that the scan of the peers in sorted address order gives.
C7_SortedOrderDecides ==
    [][\A t \in Threads :
          LET sorted == Outcome(frame[t], SortedNodes(DOMAIN frame[t].resp))
          IN  (/\ ResolveEnds(t)
               /\ returned'.ret \in {"True", "False"}
               /\ sorted[1] \in {"True", "False"})
              => (chain' = sorted[2] /\ returned'.ret = sorted[1])]_vars

\* The peers of a call whose fetch fails.
Failing(f) == {n \in DOMAIN f.resp : f.resp[n].kind \in {"error", "malformed"}}

RECURSIVE Orders(_)
Orders(ns) ==
    IF ns = {} THEN {<<>>}
    ELSE UNION {{<<n>> \o rest : rest \in Orders(ns \ {n})} : n \in ns}

\* C8: a call in which some fetch fails ends as the scan of the peers that
\* did respond ends, the failing peers left out.
C8_FetchFailureIsSkipped ==
    [][\A t \in Threads :
          (ResolveEnds(t) /\ Failing(frame[t]) # {}) =>
              \E order \in Orders(DOMAIN frame[t].resp \ Failing(frame[t])) :
                  <<returned'.ret, chain'>> = Outcome(frame[t], order)]_vars

\* C9: new_block appends only when the block the proof was searched against
\* is still the last block of the chain.
C9_NoStaleAppend ==
    [][\A t \in Threads :
          NewBlockReturns(t) =>
              /\ frame[t].tip_at = Len(chain)
              /\ frame[t].tip = last_block]_vars

\* C10: while another caller is at work, the mempool a block absorbed is not
\* seen cleared before that block is in the chain.
C10_ClearAndAppendAtomic ==
    \A t \in Threads :
        (/\ pc[t] \in {"nb_reset", "nb_append"}
         /\ current_transactions # frame[t].block.transactions
         /\ \E u \in Threads \ {t} : pc[u] # "idle")
        => \E i \in 1 .. Len(chain) : chain[i] = frame[t].block

\* The places that hold the transaction list `id`: the blocks of the chain
\* whose 'transactions' is that list, and the mempool if it is that list.
Holders(id) ==
    {<<"block", i>> : i \in {j \in 1 .. Len(chain) : chain[j].transactions = id}}
    \cup (IF current_transactions = id THEN {<<"mempool">>} ELSE {})

AllIdle == \A t \in Threads : pc[t] = "idle"

\* C11: with no call in progress, every transaction that a submission has
\* appended is held exactly once: by the mempool or by exactly one block of
\* the chain.
C11_NoTransactionLostOrDuplicated ==
    AllIdle =>
        \A id \in 1 .. Len(lists) :
            Len(lists[id]) > 0 => Cardinality(Holders(id)) = 1

\* C12: a step that is not the end of a resolve_conflicts call leaves every
\* block of the chain as it was, its transaction sequence included, so the
\* chain before the step is a prefix of the chain after it.
C12_AppendOnlyOutsideResolve ==
    [][(\A t \in Threads : ~ResolveEnds(t)) =>
          /\ Len(chain') >= Len(chain)
          /\ \A i \in 1 .. Len(chain) :
                /\ chain'[i] = chain[i]
                /\ lists'[chain'[i].transactions] = Content(chain[i])]_vars

\* C13: valid_chain, handed a chain of well-formed blocks, returns True when
\* every adjacent pair of the chain is linked by hash and proof (as it is in
\* every chain of no or one block), returns False otherwise, and raises
\* nothing.
C13_ValidatorDecidesLinkage ==
    (returned.op = "valid_chain" /\ "arg" \in DOMAIN returned) =>
        returned.ret = IF ChainLinked(returned.arg) THEN "True" ELSE "False"

\* C14: in every reachable state the block at position i of the chain,
\* counting from 0, has index i.
C14_BlockIndicesPositional ==
    \A i \in 1 .. Len(chain) : chain[i].index = i - 1

\* What __init__ leaves as the first block: index 0, previous_hash 1, proof 1
\* and no transactions.
IsGenesis(block) ==
    /\ block.index = 0
    /\ block.previous_hash = PyInt(1)
    /\ block.proof = PyInt(1)
    /\ Content(block) = <<>>

\* C15: in every reachable state the chain has a first block and it is the
\* genesis block; in the state __init__ leaves, the chain is that block alone
\* and the mempool is empty.
C15_FirstBlockIsGenesis ==
    /\ Len(chain) >= 1
    /\ IsGenesis(chain[1])
    /\ calls = 0 => (Len(chain) = 1 /\ lists[current_transactions] = <<>>)

\* The step is a whole run of the handler of POST /transactions/new.
PostTransactionStep ==
    calls' = calls + 1 /\ pc' = pc /\ returned'.op = "post_transaction"

\* A request body that lacks one of the three fields, or whose sender is not
\* a string.
AbsentOrMalformed(values) ==
    \/ \E k \in required : k \notin values.keys
    \/ values.sender.t # "str"

\* C16: a request to /transactions/new in which sender, recipient or amount
\* is absent or malformed is answered 400 and leaves the mempool and the
\* chain as they were.
C16_BadSubmissionRejected ==
    [][(PostTransactionStep /\ AbsentOrMalformed(returned'.values)) =>
          /\ returned'.ret = "400"
          /\ UNCHANGED <<chain, current_transactions, lists>>]_vars

\* Thread t's call of new_transaction returns with this step.
NewTransactionReturns(t) == pc[t] = "nt_return" /\ pc'[t] = "idle"

\* C17: when new_transaction returns, a block of the chain that holds the
\* transaction has the returned value as its index, and if the transaction
\* is in the mempool, the block the next new_block builds, whose index is
\* len(self.chain), has it.
C17_ReturnedIndexIsHoldingBlock ==
    [][\A t \in Threads :
          NewTransactionReturns(t) =>
              /\ \A j \in 1 .. Len(chain') :
                    chain'[j].transactions = frame[t].target =>
                        chain'[j].index = returned'.ret
              /\ current_transactions' = frame[t].target =>
                    Len(chain') = returned'.ret]_vars

\* The step is the append of thread t's call of new_transaction, and it puts
\* the transaction, carrying its position as tx_index, at the end of the
\* mempool.
AppendsAtEndOfMempool(t) ==
    (pc[t] = "nt_append" /\ pc'[t] = "nt_return") =>
        \E now \in Times :
            lists'[current_transactions'] =
                Append(lists[current_transactions],
                       transaction_dict([frame[t] EXCEPT
                                            !.tx_index = Len(lists[current_transactions])],
                                        now))

\* C18: new_transaction appends the transaction at the end of the mempool
\* and returns the position the transaction has there.
C18_ReturnsPendingPosition ==
    [][\A t \in Threads :
          /\ AppendsAtEndOfMempool(t)
          /\ NewTransactionReturns(t) =>
                returned'.ret = Len(lists[frame[t].target]) - 1]_vars

\* C18, amended: new_transaction appends the transaction at the end of the
\* mempool, and what it returns is the index of the last block plus one,
\* which with one caller and no chain replacement is the index the next
\* minted block gets.
C18_ReturnsNextBlockIndex ==
    [][\A t \in Threads :
          /\ AppendsAtEndOfMempool(t)
          /\ NewTransactionReturns(t) =>
                /\ returned'.ret = chain[Len(chain)].index + 1
                /\ returned'.ret = Len(chain)]_vars

\* The first submission after a mint has returned 2.
C18_Witness ==
    /\ returned.op = "new_transaction"
    /\ returned.ret = 2
    /\ Len(chain) = 2
    /\ Len(lists[current_transactions]) = 1
    /\ lists[current_transactions][1].tx_index = 0

\* C19: the proof a mint's search returned for the hash and proof of the tip
\* passes valid_proof for that pair, and it is the digest of the smallest
\* counter, counting up from 0, whose digest passes.
C19_ProofAcceptedAndMinimal ==
    \A t \in Threads :
        frame[t].op = "mint" =>
            LET last_block_hash == hash(frame[t].tip)
                last_proof == frame[t].tip.proof
            IN  /\ valid_proof(last_block_hash, last_proof, frame[t].proof)
                /\ \E n \in 0 .. HexSpace - 1 :
                      /\ frame[t].proof = sha256_of_counter(n)
                      /\ \A m \in 0 .. n - 1 :
                            ~valid_proof(last_block_hash, last_proof,
                                         sha256_of_counter(m))

\* A search has returned that went past failing counters, on a tip that
\* holds a transaction.
C19_Witness ==
    /\ frame["t1"].op = "mint"
    /\ pc["t1"] = "nb_build"
    /\ Len(Content(frame["t1"].tip)) = 1
    /\ frame["t1"].proof # sha256_of_counter(0)
    /\ valid_proof(hash(frame["t1"].tip), frame["t1"].tip.proof, frame["t1"].proof)

\* The k-th transaction of the sequence, counting from 0, carries tx_index k.
Positional(txs) == \A k \in 1 .. Len(txs) : txs[k].tx_index = k - 1

\* C20: in every reachable state the transactions of the mempool and of
\* every block of the chain carry their position as tx_index.
C20_TxIndexPositional ==
    /\ Positional(lists[current_transactions])
    /\ \A i \in 1 .. Len(chain) : Positional(Content(chain[i]))

====
